---- MODULE Spec2Model ----
(***************************************************************************)
(* Model of the purchase-order split generator and order lifecycle of      *)
(* Control-Operaciones-Binance (React client App.tsx + express server).    *)
(*                                                                         *)
(* SpecAlloc : the split allocation run by the timer callback of           *)
(*             handleGenerate, stepped pass by pass over bounded inputs.   *)
(* Spec      : the application: draft generation, saved orders, item       *)
(*             edits, debounced persistence and the order store.           *)
(***************************************************************************)
EXTENDS Naturals, Integers, Sequences, FiniteSets, Bags, TLC

\* ---------------------------------------------------------------- bounds
MaxTotal == 8
MaxPart == 4
MaxOrders == 1          \* purchase-order codes generated in one run
MaxPosts == 2           \* concurrent POST /api/orders calls
MaxInFlight == 1        \* concurrent PUT requests, failed PUT responses, DELETE calls
MaxFiles == 2           \* files selected at a time
MaxRecords == 2         \* records in one extractedData list
MaxLanguageChanges == 2 \* language changes in one session

\* ------------------------------------------------------ program constants
MaxAttempts == 1000
MIN_RANGE == 14000
InitialMaxPix == 14999

Null == "null"
NoOrder == 0            \* null order id / purchase-order code
EmptyInput == -1        \* rawInputValue === ''

VARIABLES
    alloc,              \* position and locals of the setTimeout callback of handleGenerate
    generatedLinks,     \* useState<GeneratedItem[]>
    purchaseOrderCode,  \* useState<string | null>
    error,              \* useState<string | null>
    isLoading,          \* useState(false)
    rawInputValue,      \* useState('') : raw digits (cents)
    rawMaxPixValue,     \* useState(String(14999))
    configError,        \* useState<string | null>
    genTimer,           \* pending setTimeout(..., 200) of handleGenerate with its closure
    nextPo,             \* purchase-order codes used so far (Date.now()/Math.random() are fresh)
    orders,             \* useState<Order[]>
    viewState,          \* useState<ViewState>
    putTimer,           \* pending debounce timer of updateOrderInDb with its argument
    putReqs,            \* set of PUT /api/orders/:id bodies in flight
    putFails,           \* non-OK PUT responses in flight
    postCalls,          \* bag of POST /api/orders calls in flight (request or response)
    delCalls,           \* set of DELETE /api/orders/:id calls in flight (request or response)
    db,                 \* rows of the orders table
    language,           \* LanguageProvider: useState<Language>
    epoch,              \* number of the current debounce instance (useCallback(..., [t]))
    staleTimers,        \* pending timers of earlier debounce instances
    getCalls,           \* GET /api/orders calls in flight (request or response)
    files,              \* ExecutionProcessor: useState<File[]> (the MIME type of each)
    procLoading,        \* ExecutionProcessor: isLoading
    procError,          \* ExecutionProcessor: error
    manualEntryData,    \* ExecutionProcessor: useState<ExtractedInfo>
    batches,            \* running handleProcessFiles calls with their closures
    parseCall,          \* one call of parseCurrencyValue: arguments and returned value
    totalsCall          \* one evaluation of the totals useMemo: inputs and value

genVars == <<alloc, generatedLinks, purchaseOrderCode, error, isLoading>>
draftVars == <<rawInputValue, rawMaxPixValue, configError, genTimer, nextPo>>
netVars == <<putTimer, putReqs, putFails, postCalls, delCalls, db>>
appVars == <<draftVars, orders, viewState, netVars>>

execVars == <<language, epoch, staleTimers, getCalls, files, procLoading, procError,
              manualEntryData, batches>>

pureVars == <<parseCall, totalsCall>>

vars == <<genVars, appVars, execVars, pureVars>>

\* ----------------------------------------------------------- pure helpers
RECURSIVE Sum(_)
Sum(s) == IF s = <<>> THEN 0 ELSE Head(s) + Sum(Tail(s))

SetMin(S) == CHOOSE x \in S : \A y \in S : x <= y

\* values.sort((a, b) => a - b): the element at position k of the result is
\* the one with k elements at or before it in the (stable) order
SortAsc(s) ==
    LET Rank(i) == Cardinality({j \in DOMAIN s : s[j] < s[i] \/ (s[j] = s[i] /\ j <= i)})
    IN  [k \in DOMAIN s |-> s[CHOOSE i \in DOMAIN s : Rank(i) = k]]

ValueSet(values) == {values[i] : i \in DOMAIN values}

\* new Set(values).size < values.length
HasDuplicates(values) == Cardinality(ValueSet(values)) < Len(values)

\* Math.ceil(valorDeEntrada / maxPix) for positive integers
CeilDiv(a, b) == (a + b - 1) \div b

\* Array(n).fill(baseValue); for (i < remainder) values[i]++
BaseSplit(valorDeEntrada, numeroDeValores) ==
    [i \in 1..numeroDeValores |->
        IF i <= valorDeEntrada % numeroDeValores
        THEN (valorDeEntrada \div numeroDeValores) + 1
        ELSE valorDeEntrada \div numeroDeValores]

\* the pass without the compensating decrement of the largest value
CorrectionPassNoDecrement(values) ==
    LET s == SortAsc(values)
        bad == {i \in 2..Len(s) : s[i] <= s[i-1]}
    IN  IF bad = {} THEN s
        ELSE [s EXCEPT ![SetMin(bad)] = @ + 1]

\* one iteration of the while loop: sort, bump the first non-increasing
\* element, take one from the last (largest) element
CorrectionPass(values) ==
    LET s == SortAsc(values)
        bad == {i \in 2..Len(s) : s[i] <= s[i-1]}
    IN  IF bad = {} THEN s
        ELSE LET i == SetMin(bad)
                 s1 == [s EXCEPT ![i] = @ + 1]
             IN  [s1 EXCEPT ![Len(s)] = @ - 1]

\* the loop test without its cap on the passes
LoopConditionUncapped(values, attempts) == HasDuplicates(values)

\* new Set(values).size < values.length && attempts < 1000
LoopCondition(values, attempts) ==
    HasDuplicates(values) /\ attempts < MaxAttempts

Swap(s, i, j) == [s EXCEPT ![i] = s[j], ![j] = s[i]]

\* Fisher-Yates: for (i = length-1; i > 0; i--) { j = random in 0..i; swap }
\* (1-based here: position i runs from Len down to 2, j ranges over 1..i)
RECURSIVE ShuffleFrom(_, _)
ShuffleFrom(s, i) ==
    IF i < 2 THEN {s}
    ELSE UNION {ShuffleFrom(swapped, i - 1) : swapped \in {Swap(s, i, j) : j \in 1..i}}

ShuffleOutcomes(values) == ShuffleFrom(values, Len(values))

\* newValues.map((val, index) => ({id: `${poCode}-${index}`, value: val, linkUrl: '', isPaid: false}))
NewItems(poCode, newValues) ==
    [i \in 1..Len(newValues) |->
        [id |-> <<poCode, i - 1>>, value |-> newValues[i], linkUrl |-> "", isPaid |-> FALSE]]

ItemValues(items) == [i \in 1..Len(items) |-> items[i].value]

\* ------------------------------------------------- execution: parsing
\* Texts are sequences of characters.  Amounts are kept in units of 0.00001.
UpperCase == {"A", "B", "C", "D", "E", "F", "G", "H", "I", "J", "K", "L", "M",
              "N", "O", "P", "Q", "R", "S", "T", "U", "V", "W", "X", "Y", "Z"}
Digits == {"0", "1", "2", "3", "4", "5", "6", "7", "8", "9"}

DigitValue(c) ==
    CASE c = "0" -> 0 [] c = "1" -> 1 [] c = "2" -> 2 [] c = "3" -> 3 [] c = "4" -> 4
      [] c = "5" -> 5 [] c = "6" -> 6 [] c = "7" -> 7 [] c = "8" -> 8 [] c = "9" -> 9

\* position of the first c in s, 0 when there is none
IndexOf(s, c) ==
    IF \E i \in DOMAIN s : s[i] = c THEN SetMin({i \in DOMAIN s : s[i] = c}) ELSE 0

RECURSIVE TrimLeft(_)
TrimLeft(s) == IF s # <<>> /\ Head(s) = " " THEN TrimLeft(Tail(s)) ELSE s

RECURSIVE TrimRight(_)
TrimRight(s) ==
    IF s # <<>> /\ s[Len(s)] = " " THEN TrimRight(SubSeq(s, 1, Len(s) - 1)) ELSE s

\* String.prototype.trim
Trim(s) == TrimRight(TrimLeft(s))

\* valueStr.split('/')[0]
BeforeSlash(s) == IF IndexOf(s, "/") = 0 THEN s ELSE SubSeq(s, 1, IndexOf(s, "/") - 1)

\* rest matches \s*[A-Z]{3,}$
IsCurrencyTail(rest) ==
    LET code == TrimLeft(rest)
    IN  Len(code) >= 3 /\ \A i \in DOMAIN code : code[i] \in UpperCase

\* cleanedStr.match(/^(.*?)(?:\s*([A-Z]{3,}))?$/): the lazy first group is the
\* shortest prefix whose remainder is a currency tail, else the whole text
MatchNumberCurrency(cleanedStr) ==
    LET n == Len(cleanedStr)
        cuts == {k \in 0..n : IsCurrencyTail(SubSeq(cleanedStr, k + 1, n))}
    IN  IF cuts = {}
        THEN [numberPart |-> cleanedStr, currency |-> <<>>]
        ELSE [numberPart |-> SubSeq(cleanedStr, 1, SetMin(cuts)),
              currency |-> TrimLeft(SubSeq(cleanedStr, SetMin(cuts) + 1, n))]

\* numberPart.replace(new RegExp('\\' + separator, 'g'), '')
RemoveAll(s, c) == SelectSeq(s, LAMBDA x : x # c)

\* numberPart.replace(separator, '.'): the first occurrence only
ReplaceFirst(s, c, d) == IF IndexOf(s, c) = 0 THEN s ELSE [s EXCEPT ![IndexOf(s, c)] = d]

\* the longest prefix of s made of digits
RECURSIVE DigitPrefix(_)
DigitPrefix(s) ==
    IF s # <<>> /\ Head(s) \in Digits THEN <<Head(s)>> \o DigitPrefix(Tail(s)) ELSE <<>>

RECURSIVE DigitsValue(_)
DigitsValue(ds) ==
    IF ds = <<>> THEN 0 ELSE DigitsValue(SubSeq(ds, 1, Len(ds) - 1)) * 10 + DigitValue(ds[Len(ds)])

\* the first five fraction digits in units of 0.00001 (further digits are cut)
FractionPart(fs) == DigitsValue(SubSeq(fs \o <<"0", "0", "0", "0", "0">>, 1, 5))

\* parseFloat: leading blanks, an optional sign, digits, an optional point
\* and fraction digits; the longest such prefix counts, the rest is ignored;
\* <<>> is NaN.  (Exponents and "Infinity" are not covered.)
ParseFloat(str) ==
    LET s == TrimLeft(str)
        signed == s # <<>> /\ Head(s) \in {"+", "-"}
        body == IF signed THEN Tail(s) ELSE s
        intDigits == DigitPrefix(body)
        afterInt == SubSeq(body, Len(intDigits) + 1, Len(body))
        fracDigits == IF afterInt # <<>> /\ Head(afterInt) = "."
                      THEN DigitPrefix(Tail(afterInt)) ELSE <<>>
        magnitude == DigitsValue(intDigits) * 100000 + FractionPart(fracDigits)
    IN  IF intDigits = <<>> /\ fracDigits = <<>> THEN <<>>
        ELSE IF signed /\ Head(s) = "-" THEN <<0 - magnitude>> ELSE <<magnitude>>

Languages == {"es", "pt", "en"}

NoValue == [amount |-> 0, currency |-> <<>>]

\* the separators are fixed by the language: 'en' writes 1,234.56, 'es' and
\* 'pt' write 1.234,56
ThousandsSeparatorFromText(lang, numberPart) ==
    IF IndexOf(numberPart, ",") > IndexOf(numberPart, ".") THEN "." ELSE ","

ThousandsSeparator(lang, numberPart) == IF lang = "en" THEN "," ELSE "."

DecimalSeparator(lang, numberPart) ==
    IF ThousandsSeparator(lang, numberPart) = "," THEN "." ELSE ","

\* parseCurrencyValue; currency <<>> stands for null (a code has 3+ letters)
ParseCurrencyValue(valueStr, lang) ==
    IF valueStr = <<>> THEN NoValue
    ELSE
    LET match == MatchNumberCurrency(Trim(BeforeSlash(valueStr)))
        numberPart == Trim(match.numberPart)
        thousandsSeparator == ThousandsSeparator(lang, numberPart)
        decimalSeparator == DecimalSeparator(lang, numberPart)
        cleaned == ReplaceFirst(RemoveAll(numberPart, thousandsSeparator), decimalSeparator, ".")
        amount == ParseFloat(cleaned)
    IN  IF numberPart = <<>> THEN NoValue
        ELSE [amount |-> IF amount = <<>> THEN 0 ELSE amount[1], currency |-> match.currency]

\* ---------------------------------------------- execution: the totals
RECURSIVE SumAmounts(_, _, _, _)
\* the bucket of one currency: the sum of the parsed amounts of a field over
\* the records whose parsed currency is that code
SumAmounts(data, field, code, lang) ==
    IF data = <<>> THEN 0
    ELSE LET parsed == ParseCurrencyValue(Head(data)[field], lang)
         IN  (IF parsed.currency = code THEN parsed.amount ELSE 0)
             + SumAmounts(Tail(data), field, code, lang)

RECURSIVE SumQuantity(_, _)
SumQuantity(data, lang) ==
    IF data = <<>> THEN 0
    ELSE ParseCurrencyValue(Head(data).filledQuantity, lang).amount + SumQuantity(Tail(data), lang)

\* the keys of the Map built from one field
CurrencyCodes(data, field, lang) ==
    {ParseCurrencyValue(data[i][field], lang).currency : i \in DOMAIN data} \ {<<>>}

BRL == <<"B", "R", "L">>

\* the Map of one field with every amount entered, whatever its currency
SetBucketAlways(map, currency, amount) ==
    [code \in DOMAIN map \cup {currency} |->
        (IF code \in DOMAIN map THEN map[code] ELSE 0) + (IF code = currency THEN amount ELSE 0)]

\* the Map entry replaced by the amount instead of increased by it
SetBucketOverwrite(map, currency, amount) ==
    IF currency = <<>> THEN map
    ELSE [code \in DOMAIN map \cup {currency} |-> IF code = currency THEN amount ELSE map[code]]

\* if (currency) map.set(currency, (map.get(currency) || 0) + amount)
SetBucket(map, currency, amount) ==
    IF currency = <<>> THEN map
    ELSE [code \in DOMAIN map \cup {currency} |->
            (IF code \in DOMAIN map THEN map[code] ELSE 0) + (IF code = currency THEN amount ELSE 0)]

\* totalsData before the loop: quantity 0 and two empty Maps
EmptyTotalsData == [quantity |-> 0, fees |-> <<>>, costs |-> <<>>]

\* for (const item of extractedData) { ... }
RECURSIVE Accumulate(_, _, _)
Accumulate(data, totalsData, lang) ==
    IF data = <<>> THEN totalsData
    ELSE LET item == Head(data)
             quantity == ParseCurrencyValue(item.filledQuantity, lang)
             fee == ParseCurrencyValue(item.fee, lang)
             cost == ParseCurrencyValue(item.total, lang)
         IN  Accumulate(Tail(data),
                        [quantity |-> totalsData.quantity + quantity.amount,
                         fees |-> SetBucket(totalsData.fees, fee.currency, fee.amount),
                         costs |-> SetBucket(totalsData.costs, cost.currency, cost.amount)],
                        lang)

\* the sum of every bucket, whatever its currency
MainTotalCostAnyCurrency(costs) ==
    LET RECURSIVE SumOver(_)
        SumOver(codes) == IF codes = {} THEN 0
                          ELSE LET code == CHOOSE c \in codes : TRUE
                               IN  costs[code] + SumOver(codes \ {code})
    IN  SumOver(DOMAIN costs)

\* totalsData.costs.get('BRL') || 0
MainTotalCost(costs) == IF BRL \in DOMAIN costs THEN costs[BRL] ELSE 0

\* quantity > 0 ? mainTotalCost / quantity : 0, a quotient kept as its two terms
AveragePrice(mainTotalCost, quantity) ==
    IF quantity > 0 THEN [num |-> mainTotalCost, den |-> quantity] ELSE [num |-> 0, den |-> 1]

\* the totals useMemo of ExecutionProcessor: <<>> is null
Totals(extractedData, lang) ==
    IF extractedData = <<>> THEN <<>>
    ELSE LET totalsData == Accumulate(extractedData, EmptyTotalsData, lang)
         IN  <<[totalQuantity |-> totalsData.quantity,
                averagePrice |-> AveragePrice(MainTotalCost(totalsData.costs), totalsData.quantity),
                totalFees |-> totalsData.fees,
                totalCost |-> totalsData.costs]>>

\* ----------------------------------------------------- initial app state
IdleAlloc ==
    [pc |-> "idle", valorDeEntrada |-> 0, maxPix |-> 0, numeroDeValores |-> 0,
     values |-> <<>>, attempts |-> 0]

\* ExtractedInfo with every field blank; of its ten text fields the model keeps
\* the three that the totals read (texts are sequences of characters)
initialManualEntryState == [filledQuantity |-> <<>>, fee |-> <<>>, total |-> <<>>]

\* everything but the generator fields, as constructed by App; the fetch of
\* the mount effect has been answered by an empty store
InitRest ==
    /\ rawInputValue = EmptyInput
    /\ rawMaxPixValue = InitialMaxPix
    /\ configError = Null
    /\ genTimer = <<>>
    /\ nextPo = 0
    /\ orders = <<>>
    /\ viewState = [view |-> "dashboard", orderId |-> NoOrder]
    /\ putTimer = <<>>
    /\ putReqs = {}
    /\ putFails = 0
    /\ postCalls = EmptyBag
    /\ delCalls = {}
    /\ db = {}
    /\ language = "es"
    /\ epoch = 0
    /\ staleTimers = {}
    /\ getCalls = EmptyBag
    /\ files = <<>>
    /\ procLoading = FALSE
    /\ procError = Null
    /\ manualEntryData = initialManualEntryState
    /\ batches = {}

\* ------------------------------------------------------------- SpecParse
\* One call of parseCurrencyValue on a text and a language.  The empty text
\* stands for '' and for undefined alike: both are falsy at the first test.
NumberTexts ==
    { <<>>,
      <<"1", "2">>,
      <<"a", "b", "c">>,
      <<"-", ",", "5">>,
      <<"1", ".", "2", "3", "4", ",", "5", "6">>,
      <<"1", ",", "2", "3", "4", ".", "5", "6">>,
      <<"1", "0", "0", ",", "0", "0">>,
      <<"5", ",", "0", "0", "/", "1", "0", ",", "0", "0">> }

CurrencyTexts ==
    { <<>>,
      <<" ", "B", "R", "L">>,
      <<" ", "U", "S", "D", "T">>,
      <<"B", "R", "L">>,
      <<" ", "u", "s", "d">> }

ParseTexts == {number \o code : number \in NumberTexts, code \in CurrencyTexts}

\* "500,00/1000,00 BRL" read as Portuguese
SlashExample ==
    <<<<"5", "0", "0", ",", "0", "0", "/", "1", "0", "0", "0", ",", "0", "0", " ", "B", "R", "L">>, "pt">>

ParseInputs == (ParseTexts \X Languages) \cup {SlashExample}

IdleParse == [pc |-> "idle", valueStr |-> <<>>, language |-> "es", result |-> NoValue]
IdleTotals == [pc |-> "idle", extractedData |-> <<>>, language |-> "es", result |-> <<>>]

\* no call of either function is under way
InitPure ==
    /\ parseCall = IdleParse
    /\ totalsCall = IdleTotals

InitParse ==
    /\ alloc = IdleAlloc
    /\ generatedLinks = <<>>
    /\ purchaseOrderCode = NoOrder
    /\ error = Null
    /\ isLoading = FALSE
    /\ InitRest
    /\ \E inp \in ParseInputs :
         parseCall = [pc |-> "call", valueStr |-> inp[1], language |-> inp[2], result |-> NoValue]
    /\ totalsCall = IdleTotals

\* parseCurrencyValue runs to its return
ParseReturn ==
    /\ parseCall.pc = "call"
    /\ parseCall' = [parseCall EXCEPT !.pc = "done",
                                      !.result = ParseCurrencyValue(parseCall.valueStr, parseCall.language)]
    /\ UNCHANGED <<genVars, appVars, execVars, totalsCall>>

NextParse == ParseReturn

SpecParse == InitParse /\ [][NextParse]_vars

\* ------------------------------------------------------------ SpecTotals
\* One evaluation of the totals useMemo on a record list and a language.
RecordPool ==
    { [filledQuantity |-> <<"2">>,
       fee |-> <<"1", " ", "B", "N", "B">>,
       total |-> <<"1", "0", ",", "0", "0", " ", "B", "R", "L">>],
      [filledQuantity |-> <<"1">>,
       fee |-> <<"0", ",", "5", " ", "B", "N", "B">>,
       total |-> <<"5", ",", "5", "0", " ", "B", "R", "L">>],
      [filledQuantity |-> <<"a", "b", "c">>,
       fee |-> <<"7">>,
       total |-> <<"5", " ", "U", "S", "D", "T">>],
      [filledQuantity |-> <<"-", "3">>,
       fee |-> <<>>,
       total |-> <<"9", "9">>] }

RECURSIVE RecordLists(_)
RecordLists(n) ==
    IF n = 0 THEN {<<>>}
    ELSE RecordLists(n - 1) \cup
         {Append(list, record) : list \in {l \in RecordLists(n - 1) : Len(l) = n - 1},
                                 record \in RecordPool}

\* two records with totals "100,00 BRL" and "50,00 BRL", read as Spanish
TotalsExample ==
    <<<<[filledQuantity |-> <<"3">>, fee |-> <<>>,
         total |-> <<"1", "0", "0", ",", "0", "0", " ", "B", "R", "L">>],
        [filledQuantity |-> <<"2">>, fee |-> <<>>,
         total |-> <<"5", "0", ",", "0", "0", " ", "B", "R", "L">>]>>, "es">>

TotalsInputs == (RecordLists(MaxRecords) \X Languages) \cup {TotalsExample}

InitTotals ==
    /\ alloc = IdleAlloc
    /\ generatedLinks = <<>>
    /\ purchaseOrderCode = NoOrder
    /\ error = Null
    /\ isLoading = FALSE
    /\ InitRest
    /\ parseCall = IdleParse
    /\ \E inp \in TotalsInputs :
         totalsCall = [pc |-> "call", extractedData |-> inp[1], language |-> inp[2], result |-> <<>>]

\* the useMemo callback runs to its return
TotalsReturn ==
    /\ totalsCall.pc = "call"
    /\ totalsCall' = [totalsCall EXCEPT !.pc = "done",
                                        !.result = Totals(totalsCall.extractedData, totalsCall.language)]
    /\ UNCHANGED <<genVars, appVars, execVars, parseCall>>

NextTotals == TotalsReturn

SpecTotals == InitTotals /\ [][NextTotals]_vars

\* ------------------------------------------------------------- SpecAlloc
SpecExample == <<100, 30>>

AllocInputs == ((1..MaxTotal) \X (1..MaxPart)) \cup {SpecExample}

\* state right after handleGenerate returned with its timer armed
InitAlloc ==
    /\ \E inp \in AllocInputs :
         alloc = [pc |-> "timer",
                  valorDeEntrada |-> inp[1],
                  maxPix |-> inp[2],
                  numeroDeValores |-> CeilDiv(inp[1], inp[2]),
                  values |-> <<>>,
                  attempts |-> 0]
    /\ generatedLinks = <<>>
    /\ purchaseOrderCode = 1
    /\ error = Null
    /\ isLoading = TRUE
    /\ InitRest
    /\ InitPure

\* callback entry: single value, or the initial even distribution
AllocStart ==
    /\ UNCHANGED pureVars
    /\ UNCHANGED execVars
    /\ alloc.pc = "timer"
    /\ IF alloc.numeroDeValores = 1
       THEN alloc' = [alloc EXCEPT !.pc = "install",
                                   !.values = <<alloc.valorDeEntrada>>]
       ELSE alloc' = [alloc EXCEPT !.pc = "loop",
                                   !.values = BaseSplit(alloc.valorDeEntrada, alloc.numeroDeValores)]
    /\ UNCHANGED <<generatedLinks, purchaseOrderCode, error, isLoading, appVars>>

\* one pass of the uniqueness loop
AllocPass ==
    /\ UNCHANGED pureVars
    /\ UNCHANGED execVars
    /\ alloc.pc = "loop"
    /\ LoopCondition(alloc.values, alloc.attempts)
    /\ alloc' = [alloc EXCEPT !.values = CorrectionPass(alloc.values),
                              !.attempts = @ + 1]
    /\ UNCHANGED <<generatedLinks, purchaseOrderCode, error, isLoading, appVars>>

\* loop exit followed by the shuffle
AllocShuffle ==
    /\ UNCHANGED pureVars
    /\ UNCHANGED execVars
    /\ alloc.pc = "loop"
    /\ ~LoopCondition(alloc.values, alloc.attempts)
    /\ \E shuffled \in ShuffleOutcomes(alloc.values) :
         alloc' = [alloc EXCEPT !.pc = "install", !.values = shuffled]
    /\ UNCHANGED <<generatedLinks, purchaseOrderCode, error, isLoading, appVars>>

\* setGeneratedLinks(newItems); setIsLoading(false)
AllocInstall ==
    /\ UNCHANGED pureVars
    /\ UNCHANGED execVars
    /\ alloc.pc = "install"
    /\ generatedLinks' = NewItems(purchaseOrderCode, alloc.values)
    /\ isLoading' = FALSE
    /\ alloc' = [alloc EXCEPT !.pc = "done"]
    /\ UNCHANGED <<purchaseOrderCode, error, appVars>>

NextAlloc ==
    \/ AllocStart
    \/ AllocPass
    \/ AllocShuffle
    \/ AllocInstall

SpecAlloc == InitAlloc /\ [][NextAlloc]_vars

\* The timer callback is one synchronous run: once the timer is due, every
\* step of it is taken.
SpecAllocFair == SpecAlloc /\ WF_vars(NextAlloc)

\* ----------------------------------------------------- app: pure helpers
\* the while loop of the timer callback, run to its exit
RECURSIVE UniqueLoop(_, _)
UniqueLoop(values, attempts) ==
    IF LoopCondition(values, attempts)
    THEN UniqueLoop(CorrectionPass(values), attempts + 1)
    ELSE values

\* the value lists the timer callback can produce (the shuffle is random)
GeneratedValues(valorDeEntrada, numeroDeValores) ==
    IF numeroDeValores = 1 THEN {<<valorDeEntrada>>}
    ELSE ShuffleOutcomes(UniqueLoop(BaseSplit(valorDeEntrada, numeroDeValores), 0))

SetMax(S) == CHOOSE x \in S : \A y \in S : x >= y

ItemIds(links) == {links[i].id : i \in DOMAIN links}
OrderIds(ords) == {ords[i].id : i \in DOMAIN ords}
HasOrder(ords, orderId) == orderId \in OrderIds(ords)

\* orders.find(o => o.id === orderId)
FindOrder(ords, orderId) == ords[SetMin({i \in DOMAIN ords : ords[i].id = orderId})]

\* links.every(l => l.isPaid)
AllPaid(links) == \A i \in DOMAIN links : links[i].isPaid

\* allPaid ? 'pagado' : 'pendiente'
StatusAfterPaidChange(updatedLinks) ==
    IF AllPaid(updatedLinks) THEN "pagado" ELSE "pendiente"

\* the last-item test always failing
IsLastItemNever(updatedLinks) == FALSE

\* updatedLinks.length === 0
IsLastItem(updatedLinks) == Len(updatedLinks) = 0

\* links.map(l => l.id === id ? {...l, linkUrl: url} : l)
WithLinkUrl(links, id, url) ==
    [i \in DOMAIN links |-> IF links[i].id = id THEN [links[i] EXCEPT !.linkUrl = url] ELSE links[i]]

\* links.map(l => l.id === id ? {...l, isPaid} : l)
WithIsPaid(links, id, isPaid) ==
    [i \in DOMAIN links |-> IF links[i].id = id THEN [links[i] EXCEPT !.isPaid = isPaid] ELSE links[i]]

\* links.filter(item => item.id !== id)
WithoutItem(links, id) == SelectSeq(links, LAMBDA l : l.id # id)

\* orders.filter(order => order.id !== orderId)
WithoutOrder(ords, orderId) == SelectSeq(ords, LAMBDA o : o.id # orderId)

GeneratorView == [view |-> "generator", orderId |-> NoOrder]

\* the row INSERT ... RETURNING * gives back (the nullable columns unset)
InsertedRow(newOrder) ==
    [id |-> newOrder.id, totalAmount |-> newOrder.totalAmount, status |-> newOrder.status,
     links |-> newOrder.links, extractedData |-> <<>>, executionTotals |-> <<>>,
     isExecutionRegistered |-> FALSE]

DbIds == {row.id : row \in db}
DbRow(id) == CHOOSE row \in db : row.id = id

\* the items rendered as LinkItem: draft items in the generator view, the
\* synced items of the current order in the detail view
LinkItemsShown ==
    IF viewState.view = "generator" THEN generatedLinks
    ELSE IF viewState.view = "detail" /\ HasOrder(orders, viewState.orderId) THEN generatedLinks
    ELSE <<>>

LinkUrls == {"", "pix"}

\* a commit that sets orders and/or viewState, followed by the effect that
\* copies the order of the detail view into the draft fields
Commit(newOrders, newView, links, raw, code) ==
    /\ orders' = newOrders
    /\ viewState' = newView
    /\ IF newView.view = "detail" /\ newView.orderId # NoOrder /\ HasOrder(newOrders, newView.orderId)
       THEN LET order == FindOrder(newOrders, newView.orderId) IN
            /\ generatedLinks' = order.links
            /\ rawInputValue' = order.totalAmount * 100
            /\ purchaseOrderCode' = order.id
       ELSE /\ generatedLinks' = links
            /\ rawInputValue' = raw
            /\ purchaseOrderCode' = code

\* { ...order, ...updatedFields }
Merge(order, updatedFields) ==
    [k \in DOMAIN order \cup DOMAIN updatedFields |->
        IF k \in DOMAIN updatedFields THEN updatedFields[k] ELSE order[k]]

\* updateOrder: merge the fields into the order and (re)arm the debounce timer
UpdateOrder(orderId, updatedFields) ==
    LET hits == {i \in DOMAIN orders : orders[i].id = orderId}
        newOrders == [i \in DOMAIN orders |->
                        IF i \in hits THEN Merge(orders[i], updatedFields) ELSE orders[i]]
    IN  /\ Commit(newOrders, viewState, generatedLinks, rawInputValue, purchaseOrderCode)
        /\ putTimer' = IF hits = {} THEN putTimer ELSE <<newOrders[SetMax(hits)]>>

\* ExecutionProcessor leaves the screen when the view changes or its order
\* is gone: its local state is discarded (a running handleProcessFiles goes
\* on with its closure); the next mount starts from the initial state
ProcessorUnmounts(newOrders, newView) ==
    /\ viewState.view = "processing" /\ HasOrder(orders, viewState.orderId)
    /\ ~(newView.view = "processing" /\ newView.orderId = viewState.orderId
                                     /\ HasOrder(newOrders, newView.orderId))

AfterRender(newOrders, newView) ==
    /\ IF ProcessorUnmounts(newOrders, newView)
       THEN /\ files' = <<>>
            /\ procLoading' = FALSE
            /\ procError' = Null
            /\ manualEntryData' = initialManualEntryState
            /\ batches' = {[b EXCEPT !.mounted = FALSE] : b \in batches}
       ELSE UNCHANGED <<files, procLoading, procError, manualEntryData, batches>>
    /\ UNCHANGED <<language, epoch, staleTimers, getCalls>>

\* ----------------------------------------------------- app: draft generator
HandleInputChange(numericString) ==
    /\ UNCHANGED pureVars
    /\ UNCHANGED execVars
    /\ viewState.view = "generator"
    /\ numericString # rawInputValue
    /\ rawInputValue' = numericString
    /\ error' = IF numericString # EmptyInput /\ numericString <= 0
                THEN "errorPositiveNumber" ELSE Null
    /\ UNCHANGED <<alloc, generatedLinks, purchaseOrderCode, isLoading, rawMaxPixValue,
                   configError, genTimer, nextPo, orders, viewState, netVars>>

\* handleMaxPixChange: an emptied field falls back to MIN_RANGE with an
\* error; a number is stored, with an error unless it exceeds MIN_RANGE
HandleMaxPixChange(numericString) ==
    /\ UNCHANGED pureVars
    /\ UNCHANGED execVars
    /\ viewState.view = "generator"
    /\ IF numericString = EmptyInput
       THEN /\ rawMaxPixValue' = MIN_RANGE
            /\ configError' = "errorValueNotEmpty"
       ELSE /\ rawMaxPixValue' = numericString
            /\ configError' = IF numericString <= MIN_RANGE THEN "errorValueGreaterThan" ELSE Null
    /\ UNCHANGED <<alloc, generatedLinks, purchaseOrderCode, error, isLoading, rawInputValue,
                   genTimer, nextPo, orders, viewState, netVars>>

\* handleGenerate with the draft list kept when the total is rejected
HandleGenerateKeepsDraft ==
    /\ UNCHANGED pureVars
    /\ UNCHANGED execVars
    /\ viewState.view = "generator"
    /\ ~isLoading /\ rawInputValue # EmptyInput /\ error = Null /\ configError = Null
    /\ (rawInputValue \div 100 > 0) => nextPo < MaxOrders
    /\ LET valorDeEntrada == rawInputValue \div 100
           maxPix == rawMaxPixValue
           numeroDeValores == CeilDiv(valorDeEntrada, maxPix)
       IN  IF valorDeEntrada <= 0
           THEN /\ error' = "errorInputPositive"
                /\ generatedLinks' = generatedLinks
                /\ UNCHANGED <<isLoading, purchaseOrderCode, genTimer, nextPo>>
           ELSE IF numeroDeValores <= 0
           THEN /\ error' = "errorCannotGenerateZero"
                /\ generatedLinks' = <<>>
                /\ UNCHANGED <<isLoading, purchaseOrderCode, genTimer, nextPo>>
           ELSE /\ error' = Null
                /\ generatedLinks' = <<>>
                /\ isLoading' = TRUE
                /\ nextPo' = nextPo + 1
                /\ purchaseOrderCode' = nextPo + 1
                /\ genTimer' = <<[valorDeEntrada |-> valorDeEntrada,
                                  numeroDeValores |-> numeroDeValores,
                                  poCode |-> nextPo + 1]>>
    /\ UNCHANGED <<alloc, rawInputValue, rawMaxPixValue, configError, orders, viewState, netVars>>

\* handleGenerate behind its button (disabled while loading, without input,
\* or with an error or a configuration error)
HandleGenerate ==
    /\ UNCHANGED pureVars
    /\ UNCHANGED execVars
    /\ viewState.view = "generator"
    /\ ~isLoading /\ rawInputValue # EmptyInput /\ error = Null /\ configError = Null
    /\ (rawInputValue \div 100 > 0) => nextPo < MaxOrders
    /\ LET valorDeEntrada == rawInputValue \div 100
           maxPix == rawMaxPixValue
           numeroDeValores == CeilDiv(valorDeEntrada, maxPix)
       IN  IF valorDeEntrada <= 0
           THEN /\ error' = "errorInputPositive"
                /\ generatedLinks' = <<>>
                /\ UNCHANGED <<isLoading, purchaseOrderCode, genTimer, nextPo>>
           ELSE IF numeroDeValores <= 0
           THEN /\ error' = "errorCannotGenerateZero"
                /\ generatedLinks' = <<>>
                /\ UNCHANGED <<isLoading, purchaseOrderCode, genTimer, nextPo>>
           ELSE /\ error' = Null
                /\ generatedLinks' = <<>>
                /\ isLoading' = TRUE
                /\ nextPo' = nextPo + 1
                /\ purchaseOrderCode' = nextPo + 1
                /\ genTimer' = <<[valorDeEntrada |-> valorDeEntrada,
                                  numeroDeValores |-> numeroDeValores,
                                  poCode |-> nextPo + 1]>>
    /\ UNCHANGED <<alloc, rawInputValue, rawMaxPixValue, configError, orders, viewState, netVars>>

\* the setTimeout callback of handleGenerate
GenTimerFire ==
    /\ UNCHANGED pureVars
    /\ UNCHANGED execVars
    /\ genTimer # <<>>
    /\ \E newValues \in GeneratedValues(genTimer[1].valorDeEntrada, genTimer[1].numeroDeValores) :
         generatedLinks' = NewItems(genTimer[1].poCode, newValues)
    /\ isLoading' = FALSE
    /\ genTimer' = <<>>
    /\ UNCHANGED <<alloc, purchaseOrderCode, error, rawInputValue, rawMaxPixValue, configError,
                   nextPo, orders, viewState, netVars>>

HandleClear ==
    /\ UNCHANGED pureVars
    /\ UNCHANGED execVars
    /\ viewState.view = "generator"
    /\ generatedLinks # <<>>
    /\ rawInputValue' = EmptyInput
    /\ generatedLinks' = <<>>
    /\ error' = Null
    /\ purchaseOrderCode' = NoOrder
    /\ UNCHANGED <<alloc, isLoading, rawMaxPixValue, configError, genTimer, nextPo,
                   orders, viewState, netVars>>

\* ------------------------------------------------------- app: navigation
\* dashboard and generator tabs: handleClear(); setViewState(...)
TabClick(view) ==
    /\ UNCHANGED pureVars
    /\ view \in {"dashboard", "generator"}
    /\ AfterRender(orders, [view |-> view, orderId |-> NoOrder])
    /\ Commit(orders, [view |-> view, orderId |-> NoOrder], <<>>, EmptyInput, NoOrder)
    /\ error' = Null
    /\ UNCHANGED <<alloc, isLoading, rawMaxPixValue, configError, genTimer, nextPo, netVars>>

TabHistory ==
    /\ UNCHANGED pureVars
    /\ AfterRender(orders, [view |-> "history", orderId |-> NoOrder])
    /\ viewState.view # "history"
    /\ Commit(orders, [view |-> "history", orderId |-> NoOrder],
              generatedLinks, rawInputValue, purchaseOrderCode)
    /\ UNCHANGED <<alloc, error, isLoading, rawMaxPixValue, configError, genTimer, nextPo, netVars>>

\* click on a row of the registered orders table
OpenDetail(orderId) ==
    /\ UNCHANGED pureVars
    /\ UNCHANGED execVars
    /\ viewState.view = "generator"
    /\ HasOrder(orders, orderId)
    /\ Commit(orders, [view |-> "detail", orderId |-> orderId],
              generatedLinks, rawInputValue, purchaseOrderCode)
    /\ UNCHANGED <<alloc, error, isLoading, rawMaxPixValue, configError, genTimer, nextPo, netVars>>

HandleBackToList ==
    /\ UNCHANGED pureVars
    /\ AfterRender(orders, GeneratorView)
    /\ viewState.view \in {"detail", "processing"}
    /\ HasOrder(orders, viewState.orderId)
    /\ Commit(orders, GeneratorView, <<>>, EmptyInput, NoOrder)
    /\ error' = Null
    /\ UNCHANGED <<alloc, isLoading, rawMaxPixValue, configError, genTimer, nextPo, netVars>>

\* ------------------------------------------------- app: saving the draft
HandleSaveOperation(maxPosts) ==
    /\ UNCHANGED pureVars
    /\ UNCHANGED execVars
    /\ viewState.view = "generator"
    /\ generatedLinks # <<>>
    /\ purchaseOrderCode # NoOrder
    /\ BagCardinality(postCalls) < maxPosts
    /\ postCalls' = postCalls (+) SetToBag(
         {[phase |-> "req",
           order |-> [id |-> purchaseOrderCode,
                      totalAmount |-> Sum(ItemValues(generatedLinks)),
                      status |-> "pendiente",
                      links |-> generatedLinks]]})
    /\ UNCHANGED <<genVars, draftVars, orders, viewState, putTimer, putReqs, putFails, delCalls, db>>

\* app.post('/api/orders'): the primary key rejects a second row of one id
ServerPostOrder ==
    /\ UNCHANGED pureVars
    /\ UNCHANGED execVars
    /\ \E call \in BagToSet(postCalls) :
           /\ call.phase = "req"
           /\ IF call.order.id \in DbIds
              THEN /\ postCalls' = (postCalls (-) SetToBag({call}))
                                       (+) SetToBag({[call EXCEPT !.phase = "fail"]})
                   /\ db' = db
              ELSE /\ postCalls' = (postCalls (-) SetToBag({call}))
                                       (+) SetToBag({[phase |-> "ok", order |-> InsertedRow(call.order)]})
                   /\ db' = db \cup {InsertedRow(call.order)}
           /\ UNCHANGED <<genVars, draftVars, orders, viewState, putTimer, putReqs, putFails, delCalls>>

\* continuation of handleSaveOperation after the fetch
SaveResponse ==
    /\ UNCHANGED pureVars
    /\ UNCHANGED execVars
    /\ \E call \in BagToSet(postCalls) :
           /\ call.phase # "req"
           /\ postCalls' = postCalls (-) SetToBag({call})
           /\ IF call.phase = "ok"
              THEN /\ Commit(<<call.order>> \o orders, viewState, <<>>, EmptyInput, NoOrder)
                   /\ error' = Null
              ELSE /\ error' = "Failed to save order to database."
                   /\ UNCHANGED <<generatedLinks, purchaseOrderCode, rawInputValue, orders, viewState>>
           /\ UNCHANGED <<alloc, isLoading, rawMaxPixValue, configError, genTimer, nextPo,
                          putTimer, putReqs, putFails, delCalls, db>>

\* ------------------------------------------------------ app: item edits
HandleLinkChange(id, url) ==
    /\ UNCHANGED pureVars
    /\ UNCHANGED execVars
    /\ id \in ItemIds(LinkItemsShown)
    /\ url \in LinkUrls
    /\ \E i \in DOMAIN generatedLinks : generatedLinks[i].id = id /\ generatedLinks[i].linkUrl # url
    /\ IF viewState.orderId = NoOrder
       THEN /\ generatedLinks' = WithLinkUrl(generatedLinks, id, url)
            /\ UNCHANGED <<purchaseOrderCode, rawInputValue, orders, viewState, putTimer>>
       ELSE LET orderToUpdate == FindOrder(orders, viewState.orderId)
                updatedLinks == WithLinkUrl(orderToUpdate.links, id, url)
            IN  UpdateOrder(viewState.orderId, [links |-> updatedLinks])
    /\ UNCHANGED <<alloc, error, isLoading, rawMaxPixValue, configError, genTimer, nextPo,
                   putReqs, putFails, postCalls, delCalls, db>>

\* the checkbox of a LinkItem: isPaid is the negation of what is displayed
HandlePaidChange(id) ==
    /\ UNCHANGED pureVars
    /\ UNCHANGED execVars
    /\ id \in ItemIds(LinkItemsShown)
    /\ LET shown == CHOOSE l \in {generatedLinks[i] : i \in DOMAIN generatedLinks} : l.id = id
           isPaid == ~shown.isPaid
       IN  IF viewState.orderId = NoOrder
           THEN /\ generatedLinks' = WithIsPaid(generatedLinks, id, isPaid)
                /\ UNCHANGED <<purchaseOrderCode, rawInputValue, orders, viewState, putTimer>>
           ELSE LET orderToUpdate == FindOrder(orders, viewState.orderId)
                    updatedLinks == WithIsPaid(orderToUpdate.links, id, isPaid)
                IN  UpdateOrder(viewState.orderId,
                                [links |-> updatedLinks,
                                 status |-> StatusAfterPaidChange(updatedLinks)])
    /\ UNCHANGED <<alloc, error, isLoading, rawMaxPixValue, configError, genTimer, nextPo,
                   putReqs, putFails, postCalls, delCalls, db>>

\* handleDeleteItem without the recomputation of line 2821: the order keeps
\* its old totalAmount when an item is removed
HandleDeleteItemKeepsTotal(id) ==
    /\ UNCHANGED pureVars
    /\ UNCHANGED execVars
    /\ id \in ItemIds(LinkItemsShown)
    /\ IF viewState.orderId = NoOrder
       THEN LET newLinks == WithoutItem(generatedLinks, id) IN
            /\ IF newLinks = <<>>
               THEN /\ rawInputValue' = EmptyInput
                    /\ generatedLinks' = <<>>
                    /\ error' = Null
                    /\ purchaseOrderCode' = NoOrder
               ELSE /\ rawInputValue' = Sum(ItemValues(newLinks)) * 100
                    /\ generatedLinks' = newLinks
                    /\ UNCHANGED <<error, purchaseOrderCode>>
            /\ UNCHANGED <<orders, viewState, putTimer, delCalls>>
       ELSE LET orderToUpdate == FindOrder(orders, viewState.orderId)
                updatedLinks == WithoutItem(orderToUpdate.links, id)
            IN  IF Len(updatedLinks) = 0
                THEN /\ Cardinality(delCalls) < MaxInFlight
                     /\ delCalls' = delCalls \cup {[phase |-> "req", orderId |-> viewState.orderId]}
                     /\ UNCHANGED <<generatedLinks, purchaseOrderCode, rawInputValue, error,
                                    orders, viewState, putTimer>>
                ELSE /\ UpdateOrder(viewState.orderId, [links |-> updatedLinks])
                     /\ UNCHANGED <<error, delCalls>>
    /\ UNCHANGED <<alloc, isLoading, rawMaxPixValue, configError, genTimer, nextPo,
                   putReqs, putFails, postCalls, db>>

\* handleDeleteItem; deleting the last item of an order goes through
\* handleDeleteOrder (window.confirm accepted, DELETE sent)
HandleDeleteItem(id) ==
    /\ UNCHANGED pureVars
    /\ UNCHANGED execVars
    /\ id \in ItemIds(LinkItemsShown)
    /\ IF viewState.orderId = NoOrder
       THEN LET newLinks == WithoutItem(generatedLinks, id) IN
            /\ IF newLinks = <<>>
               THEN /\ rawInputValue' = EmptyInput
                    /\ generatedLinks' = <<>>
                    /\ error' = Null
                    /\ purchaseOrderCode' = NoOrder
               ELSE /\ rawInputValue' = Sum(ItemValues(newLinks)) * 100
                    /\ generatedLinks' = newLinks
                    /\ UNCHANGED <<error, purchaseOrderCode>>
            /\ UNCHANGED <<orders, viewState, putTimer, delCalls>>
       ELSE LET orderToUpdate == FindOrder(orders, viewState.orderId)
                updatedLinks == WithoutItem(orderToUpdate.links, id)
                newTotal == Sum(ItemValues(updatedLinks))
            IN  IF IsLastItem(updatedLinks)
                THEN /\ Cardinality(delCalls) < MaxInFlight
                     /\ delCalls' = delCalls \cup {[phase |-> "req", orderId |-> viewState.orderId]}
                     /\ UNCHANGED <<generatedLinks, purchaseOrderCode, rawInputValue, error,
                                    orders, viewState, putTimer>>
                ELSE /\ UpdateOrder(viewState.orderId,
                                     [links |-> updatedLinks, totalAmount |-> newTotal])
                     /\ UNCHANGED <<error, delCalls>>
    /\ UNCHANGED <<alloc, isLoading, rawMaxPixValue, configError, genTimer, nextPo,
                   putReqs, putFails, postCalls, db>>

\* app.delete('/api/orders/:id')
ServerDeleteOrder ==
    /\ UNCHANGED pureVars
    /\ UNCHANGED execVars
    /\ \E call \in delCalls :
           /\ call.phase = "req"
           /\ IF call.orderId \in DbIds
              THEN /\ db' = db \ {DbRow(call.orderId)}
                   /\ delCalls' = (delCalls \ {call}) \cup {[call EXCEPT !.phase = "ok"]}
              ELSE /\ db' = db
                   /\ delCalls' = (delCalls \ {call}) \cup {[call EXCEPT !.phase = "fail"]}
           /\ UNCHANGED <<genVars, draftVars, orders, viewState, putTimer, putReqs, putFails, postCalls>>

\* continuation of handleDeleteOrder and of the .then of handleDeleteItem
DeleteResponse ==
    /\ UNCHANGED pureVars
    /\ UNCHANGED execVars
    /\ \E call \in delCalls :
           /\ call.phase # "req"
           /\ delCalls' = delCalls \ {call}
           /\ IF call.phase = "ok"
              THEN /\ Commit(WithoutOrder(orders, call.orderId), GeneratorView, <<>>, EmptyInput, NoOrder)
                   /\ error' = Null
              ELSE /\ error' = "Order not found."
                   /\ UNCHANGED <<generatedLinks, purchaseOrderCode, rawInputValue, orders, viewState>>
           /\ UNCHANGED <<alloc, isLoading, rawMaxPixValue, configError, genTimer, nextPo,
                          putTimer, putReqs, putFails, postCalls, db>>

\* ------------------------------------------- app: debounced persistence
\* the debounce timer of updateOrderInDb fires: fetch(PUT) with its argument
PutTimerFire ==
    /\ UNCHANGED pureVars
    /\ UNCHANGED execVars
    /\ putTimer # <<>>
    /\ Cardinality(putReqs) < MaxInFlight
    /\ putReqs' = putReqs \cup {putTimer[1]}
    /\ putTimer' = <<>>
    /\ UNCHANGED <<genVars, draftVars, orders, viewState, putFails, postCalls, delCalls, db>>

\* a PUT that inserts the row when no row has the id
ServerPutOrderUpsert ==
    /\ UNCHANGED pureVars
    /\ UNCHANGED execVars
    /\ \E body \in putReqs :
           /\ putReqs' = putReqs \ {body}
           /\ IF body.id \in DbIds
              THEN db' = (db \ {DbRow(body.id)}) \cup
                         {[DbRow(body.id) EXCEPT !.totalAmount = body.totalAmount,
                                                 !.status = body.status,
                                                 !.links = body.links,
                                                 !.extractedData = body.extractedData,
                                                 !.executionTotals = body.executionTotals,
                                                 !.isExecutionRegistered = body.isExecutionRegistered]}
              ELSE db' = db \cup {body}
           /\ putFails' = putFails
           /\ UNCHANGED <<genVars, draftVars, orders, viewState, putTimer, postCalls, delCalls>>

\* app.put('/api/orders/:id'): UPDATE ... WHERE id = $7 RETURNING *
ServerPutOrder ==
    /\ UNCHANGED pureVars
    /\ UNCHANGED execVars
    /\ \E body \in putReqs :
           /\ (body.id \notin DbIds) => putFails < MaxInFlight
           /\ putReqs' = putReqs \ {body}
           /\ IF body.id \in DbIds
              THEN /\ db' = (db \ {DbRow(body.id)}) \cup
                         {[DbRow(body.id) EXCEPT !.totalAmount = body.totalAmount,
                                                 !.status = body.status,
                                                 !.links = body.links,
                                                 !.extractedData = body.extractedData,
                                                 !.executionTotals = body.executionTotals,
                                                 !.isExecutionRegistered = body.isExecutionRegistered]}
                   /\ putFails' = putFails
              ELSE /\ db' = db
                   /\ putFails' = putFails + 1
           /\ UNCHANGED <<genVars, draftVars, orders, viewState, putTimer, postCalls, delCalls>>

\* the non-OK branch of updateOrderInDb
PutFailResponse ==
    /\ UNCHANGED pureVars
    /\ UNCHANGED execVars
    /\ putFails > 0
    /\ putFails' = putFails - 1
    /\ error' = "Order not found."
    /\ UNCHANGED <<alloc, generatedLinks, purchaseOrderCode, isLoading, draftVars, orders,
                   viewState, putTimer, putReqs, postCalls, delCalls, db>>

\* ------------------------------------------------- app: fetching orders
\* SELECT * FROM orders ORDER BY "createdAt" DESC (codes grow with creation)
RECURSIVE RowsDesc(_)
RowsDesc(rows) ==
    IF rows = {} THEN <<>>
    ELSE LET newest == CHOOSE row \in rows : \A other \in rows : other.id <= row.id
         IN  <<newest>> \o RowsDesc(rows \ {newest})

\* app.get('/api/orders')
ServerGetOrders ==
    /\ UNCHANGED pureVars
    /\ \E call \in BagToSet(getCalls) :
           /\ call.phase = "req"
           /\ getCalls' = (getCalls (-) SetToBag({call}))
                             (+) SetToBag({[phase |-> "ok", rows |-> RowsDesc(db)]})
           /\ UNCHANGED <<genVars, draftVars, orders, viewState, putTimer, putReqs, putFails,
                          postCalls, delCalls, db, language, epoch, staleTimers, files,
                          procLoading, procError, manualEntryData, batches>>

\* fetchOrders: setOrders(data)
FetchResponse ==
    /\ UNCHANGED pureVars
    /\ \E call \in BagToSet(getCalls) :
           /\ call.phase = "ok"
           /\ getCalls' = getCalls (-) SetToBag({call})
           /\ Commit(call.rows, viewState, generatedLinks, rawInputValue, purchaseOrderCode)
           /\ IF ProcessorUnmounts(call.rows, viewState)
              THEN /\ files' = <<>>
                   /\ procLoading' = FALSE
                   /\ procError' = Null
                   /\ manualEntryData' = initialManualEntryState
                   /\ batches' = {[b EXCEPT !.mounted = FALSE] : b \in batches}
              ELSE UNCHANGED <<files, procLoading, procError, manualEntryData, batches>>
           /\ UNCHANGED <<alloc, error, isLoading, rawMaxPixValue, configError, genTimer, nextPo,
                          netVars, language, epoch, staleTimers>>

\* ------------------------------------------------------------------ Spec
RawInputs == {1000000, 2000100}

Init ==
    /\ alloc = IdleAlloc
    /\ generatedLinks = <<>>
    /\ purchaseOrderCode = NoOrder
    /\ error = Null
    /\ isLoading = FALSE
    /\ InitRest
    /\ InitPure

Next ==
    \/ \E numericString \in RawInputs : HandleInputChange(numericString)
    \/ HandleGenerate
    \/ GenTimerFire
    \/ HandleClear
    \/ \E view \in {"dashboard", "generator"} : TabClick(view)
    \/ TabHistory
    \/ \E orderId \in 1..MaxOrders : OpenDetail(orderId)
    \/ HandleBackToList
    \/ HandleSaveOperation(MaxInFlight)
    \/ ServerPostOrder
    \/ SaveResponse
    \/ \E id \in (1..MaxOrders) \X (0..2), url \in LinkUrls : HandleLinkChange(id, url)
    \/ \E id \in (1..MaxOrders) \X (0..2) : HandlePaidChange(id)
    \/ \E id \in (1..MaxOrders) \X (0..2) : HandleDeleteItem(id)
    \/ ServerDeleteOrder
    \/ DeleteResponse
    \/ PutTimerFire
    \/ ServerPutOrder
    \/ PutFailResponse

Spec == Init /\ [][Next]_vars

\* ---------------------------------------------------------- SpecGenerate
\* The generator form alone: totals and upper bounds are typed, valid and
\* invalid, and generation is requested.
GenerateInputs == RawInputs \cup {0, 50}
MaxPixInputs == {EmptyInput, 0, MIN_RANGE, MIN_RANGE + 1}

NextGenerate ==
    \/ \E numericString \in GenerateInputs : HandleInputChange(numericString)
    \/ \E numericString \in MaxPixInputs : HandleMaxPixChange(numericString)
    \/ HandleGenerate
    \/ GenTimerFire
    \/ HandleClear
    \/ \E view \in {"dashboard", "generator"} : TabClick(view)

SpecGenerate == Init /\ [][NextGenerate]_vars

\* -------------------------------------------------------- SpecDoubleSave
\* The save button stays enabled while a save is in flight, so the same draft
\* can be posted again before the first response arrives.  One single-item
\* draft, up to MaxPosts saves of it in flight.
NextDoubleSave ==
    \/ HandleInputChange(1000000)
    \/ HandleGenerate
    \/ GenTimerFire
    \/ HandleClear
    \/ \E view \in {"dashboard", "generator"} : TabClick(view)
    \/ TabHistory
    \/ \E orderId \in 1..MaxOrders : OpenDetail(orderId)
    \/ HandleBackToList
    \/ HandleSaveOperation(MaxPosts)
    \/ ServerPostOrder
    \/ SaveResponse
    \/ \E id \in (1..MaxOrders) \X {0} : HandleLinkChange(id, "pix")
    \/ \E id \in (1..MaxOrders) \X {0} : HandlePaidChange(id)
    \/ \E id \in (1..MaxOrders) \X {0} : HandleDeleteItem(id)
    \/ ServerDeleteOrder
    \/ DeleteResponse
    \/ PutTimerFire
    \/ ServerPutOrder
    \/ PutFailResponse

SpecDoubleSave == Init /\ [][NextDoubleSave]_vars

\* ------------------------------------------- execution: ExecutionProcessor

FileTypes == {"image/png", "text/plain"}

\* what the extraction service answers for one image: an array of records
ExtractedRecord ==
    [filledQuantity |-> <<"2">>, fee |-> <<"1", " ", "B", "N", "B">>,
     total |-> <<"1", ".", "0", "0", "0", ",", "5", " ", "B", "R", "L">>]
ExtractReplies == {<<ExtractedRecord>>}

\* texts typed into the manual entry form and into the cells of the table
FieldNames == {"filledQuantity", "fee", "total"}
TypedTexts == {<<"3">>}
\* a typed amount that reads differently under the two separator conventions
LocaleTexts == {<<"1", ".", "5", " ", "B", "R", "L">>}

\* ExecutionProcessor is rendered for currentOrder in the processing view
ProcessorShown == viewState.view = "processing" /\ HasOrder(orders, viewState.orderId)
CurrentOrder == FindOrder(orders, viewState.orderId)

\* updateOrder as closed over by a handler of debounce instance inst: the
\* timer that is cleared and re-armed is the one of that instance
UpdateOrderVia(inst, orderId, updatedFields) ==
    LET hits == {i \in DOMAIN orders : orders[i].id = orderId}
        newOrders == [i \in DOMAIN orders |->
                        IF i \in hits THEN Merge(orders[i], updatedFields) ELSE orders[i]]
    IN  /\ Commit(newOrders, viewState, generatedLinks, rawInputValue, purchaseOrderCode)
        /\ IF hits = {} THEN UNCHANGED <<putTimer, staleTimers>>
           ELSE IF inst = epoch
           THEN /\ putTimer' = <<newOrders[SetMax(hits)]>>
                /\ staleTimers' = staleTimers
           ELSE /\ putTimer' = putTimer
                /\ staleTimers' = {tm \in staleTimers : tm.epoch # inst}
                                    \cup {[epoch |-> inst, order |-> newOrders[SetMax(hits)]]}

\* the variables no handler of ExecutionProcessor touches
idleVars == <<alloc, error, isLoading, rawMaxPixValue, configError, genTimer, nextPo,
              putReqs, putFails, postCalls, delCalls, db, language, epoch, getCalls>>
orderVars == <<generatedLinks, purchaseOrderCode, rawInputValue, orders, viewState,
               putTimer, staleTimers>>

\* LanguageSwitcher: setLanguage; t changes, so updateOrderInDb becomes a new
\* debounce instance (a pending timer of the old one stays armed) and the
\* fetchOrders effect runs again
HandleLanguageChange(lang) ==
    /\ UNCHANGED pureVars
    /\ lang # language
    /\ epoch < MaxLanguageChanges
    /\ BagCardinality(getCalls) < MaxInFlight
    /\ language' = lang
    /\ epoch' = epoch + 1
    /\ staleTimers' = staleTimers \cup {[epoch |-> epoch, order |-> putTimer[i]] : i \in DOMAIN putTimer}
    /\ putTimer' = <<>>
    /\ getCalls' = getCalls (+) SetToBag({[phase |-> "req"]})
    /\ UNCHANGED <<genVars, draftVars, orders, viewState, putReqs, putFails, postCalls,
                   delCalls, db, files, procLoading, procError, manualEntryData, batches>>

\* the timer of an earlier debounce instance fires: fetch(PUT) with its argument
StaleTimerFire ==
    /\ UNCHANGED pureVars
    /\ \E tm \in staleTimers :
           /\ Cardinality(putReqs) < MaxInFlight
           /\ putReqs' = putReqs \cup {tm.order}
           /\ staleTimers' = staleTimers \ {tm}
           /\ UNCHANGED <<genVars, draftVars, orders, viewState, putTimer, putFails, postCalls,
                          delCalls, db, language, epoch, getCalls, files, procLoading, procError,
                          manualEntryData, batches>>

\* the process / processed button of a paid order's row: ExecutionProcessor
\* mounts with its initial local state
OpenProcessing(orderId) ==
    /\ UNCHANGED pureVars
    /\ viewState.view = "generator"
    /\ \E i \in DOMAIN orders : orders[i].id = orderId /\ orders[i].status = "pagado"
    /\ Commit(orders, [view |-> "processing", orderId |-> orderId],
              generatedLinks, rawInputValue, purchaseOrderCode)
    /\ UNCHANGED <<alloc, error, isLoading, rawMaxPixValue, configError, genTimer, nextPo,
                   netVars, execVars>>

\* handleFileChange / handleDrop: files are appended to the selection
HandleFileChange(type) ==
    /\ UNCHANGED pureVars
    /\ ProcessorShown
    /\ ~CurrentOrder.isExecutionRegistered
    /\ Len(files) < MaxFiles
    /\ files' = Append(files, type)
    /\ UNCHANGED <<idleVars, orderVars, procLoading, procError, manualEntryData, batches>>

\* prevFiles.filter((_, index) => index !== indexToRemove)
HandleRemoveFile(indexToRemove) ==
    /\ UNCHANGED pureVars
    /\ ProcessorShown
    /\ ~CurrentOrder.isExecutionRegistered
    /\ indexToRemove \in DOMAIN files
    /\ files' = SubSeq(files, 1, indexToRemove - 1) \o SubSeq(files, indexToRemove + 1, Len(files))
    /\ UNCHANGED <<idleVars, orderVars, procLoading, procError, manualEntryData, batches>>

\* handleProcessFiles up to its first await: the closure keeps order.id,
\* extractedData, files and the onSaveData of this render
HandleProcessFiles ==
    /\ UNCHANGED pureVars
    /\ ProcessorShown
    /\ ~procLoading /\ files # <<>> /\ ~CurrentOrder.isExecutionRegistered
    /\ Cardinality(batches) < MaxInFlight
    /\ procLoading' = TRUE
    /\ procError' = Null
    /\ batches' = batches \cup
         {[orderId |-> CurrentOrder.id, extractedData |-> CurrentOrder.extractedData,
           files |-> files, next |-> 1, awaiting |-> FALSE, newExtractedData |-> <<>>,
           inst |-> epoch, mounted |-> TRUE]}
    /\ UNCHANGED <<idleVars, orderVars, files, manualEntryData>>

\* a failing file skipped: the error is shown and the loop goes on
BatchSkipFile(b, message) ==
    /\ batches' = (batches \ {b}) \cup {[b EXCEPT !.next = @ + 1, !.awaiting = FALSE]}
    /\ IF b.mounted
       THEN procError' = message /\ procLoading' = procLoading
       ELSE UNCHANGED <<procError, procLoading>>

\* the batch ended without the error being shown
BatchAbortSilent(b, message) ==
    /\ batches' = batches \ {b}
    /\ IF b.mounted
       THEN procError' = Null /\ procLoading' = FALSE
       ELSE UNCHANGED <<procError, procLoading>>

\* the catch and finally blocks of handleProcessFiles
BatchAbort(b, message) ==
    /\ batches' = batches \ {b}
    /\ IF b.mounted
       THEN procError' = message /\ procLoading' = FALSE
       ELSE UNCHANGED <<procError, procLoading>>

\* the loop of handleProcessFiles reaches the next file: a file that is not
\* an image throws, an image is sent to /api/extract-data
BatchNextFile ==
    /\ UNCHANGED pureVars
    /\ \E b \in batches :
           /\ ~b.awaiting
           /\ b.next <= Len(b.files)
           /\ IF b.files[b.next] = "image/png"
              THEN /\ batches' = (batches \ {b}) \cup {[b EXCEPT !.awaiting = TRUE]}
                   /\ UNCHANGED <<procError, procLoading>>
              ELSE BatchAbort(b, "errorFileNotImage")
           /\ UNCHANGED <<idleVars, orderVars, files, manualEntryData>>

\* the answer of /api/extract-data: an array of records, or a non-OK answer
ExtractResponse(ok, extracted) ==
    /\ UNCHANGED pureVars
    /\ \E b \in batches :
           /\ b.awaiting
           /\ IF ok
              THEN /\ batches' = (batches \ {b}) \cup
                         {[b EXCEPT !.awaiting = FALSE, !.next = b.next + 1,
                                    !.newExtractedData = b.newExtractedData \o extracted]}
                   /\ UNCHANGED <<procError, procLoading>>
              ELSE BatchAbort(b, "Failed to extract data from server.")
           /\ UNCHANGED <<idleVars, orderVars, files, manualEntryData>>

\* after the loop: onSaveData(order.id, [...extractedData, ...newExtractedData])
\* with the closure's values, setFiles([]), setIsLoading(false)
BatchComplete ==
    /\ UNCHANGED pureVars
    /\ \E b \in batches :
           /\ ~b.awaiting
           /\ b.next > Len(b.files)
           /\ Len(b.extractedData \o b.newExtractedData) <= MaxRecords
           /\ UpdateOrderVia(b.inst, b.orderId, [extractedData |-> b.extractedData \o b.newExtractedData])
           /\ batches' = batches \ {b}
           /\ IF b.mounted
              THEN files' = <<>> /\ procLoading' = FALSE
              ELSE UNCHANGED <<files, procLoading>>
           /\ UNCHANGED <<idleVars, procError, manualEntryData>>

\* the register step refused for an order that is not paid
CanRegisterPaidOnly ==
    /\ ProcessorShown
    /\ CurrentOrder.status = "pagado"
    /\ CurrentOrder.extractedData # <<>>
    /\ ~CurrentOrder.isExecutionRegistered
    /\ Totals(CurrentOrder.extractedData, language) # <<>>

\* what lets handleRegister act: its button is rendered with the table
\* (extractedData.length > 0) and disabled once isRegistered, and the handler
\* tests `if (totals)`
CanRegister ==
    /\ ProcessorShown
    /\ CurrentOrder.extractedData # <<>>
    /\ ~CurrentOrder.isExecutionRegistered
    /\ Totals(CurrentOrder.extractedData, language) # <<>>

\* handleRegister: onRegister(order.id, totals)
HandleRegister ==
    /\ UNCHANGED pureVars
    /\ CanRegister
    /\ UpdateOrderVia(epoch, CurrentOrder.id,
                      [executionTotals |-> Totals(CurrentOrder.extractedData, language),
                       isExecutionRegistered |-> TRUE])
    /\ UNCHANGED <<idleVars, files, procLoading, procError, manualEntryData, batches>>

\* extractedData.filter((_, index) => index !== indexToRemove)
HandleDeleteExtractedItem(indexToRemove) ==
    /\ UNCHANGED pureVars
    /\ ProcessorShown
    /\ ~CurrentOrder.isExecutionRegistered
    /\ indexToRemove \in DOMAIN CurrentOrder.extractedData
    /\ LET data == CurrentOrder.extractedData
       IN  UpdateOrderVia(epoch, CurrentOrder.id,
               [extractedData |-> SubSeq(data, 1, indexToRemove - 1)
                                    \o SubSeq(data, indexToRemove + 1, Len(data))])
    /\ UNCHANGED <<idleVars, files, procLoading, procError, manualEntryData, batches>>

\* extractedData.map((item, index) => index === indexToUpdate ? {...item, [field]: value} : item)
HandleExtractedItemChange(indexToUpdate, field, value) ==
    /\ UNCHANGED pureVars
    /\ ProcessorShown
    /\ ~CurrentOrder.isExecutionRegistered
    /\ indexToUpdate \in DOMAIN CurrentOrder.extractedData
    /\ UpdateOrderVia(epoch, CurrentOrder.id,
           [extractedData |-> [CurrentOrder.extractedData EXCEPT ![indexToUpdate][field] = value]])
    /\ UNCHANGED <<idleVars, files, procLoading, procError, manualEntryData, batches>>

\* setManualEntryData(prev => ({ ...prev, [name]: value }))
HandleManualEntryChange(name, value) ==
    /\ UNCHANGED pureVars
    /\ ProcessorShown
    /\ ~CurrentOrder.isExecutionRegistered
    /\ manualEntryData' = [manualEntryData EXCEPT ![name] = value]
    /\ UNCHANGED <<idleVars, orderVars, files, procLoading, procError, batches>>

\* handleAddManualRecord
HandleAddManualRecord ==
    /\ UNCHANGED pureVars
    /\ ProcessorShown
    /\ ~CurrentOrder.isExecutionRegistered
    /\ IF \A name \in FieldNames : Trim(manualEntryData[name]) = <<>>
       THEN /\ procError' = "errorFillOneField"
            /\ UNCHANGED <<orderVars, manualEntryData>>
       ELSE /\ Len(CurrentOrder.extractedData) < MaxRecords
            /\ procError' = Null
            /\ UpdateOrderVia(epoch, CurrentOrder.id,
                   [extractedData |-> Append(CurrentOrder.extractedData, manualEntryData)])
            /\ manualEntryData' = initialManualEntryState
    /\ UNCHANGED <<idleVars, files, procLoading, batches>>

\* ---------------------------------------------------------------- SpecExec
\* A paid order saved in an earlier session is in the store; the client
\* starts as constructed, with the fetch of its mount effect in flight.
StoredOrder ==
    [id |-> 1, totalAmount |-> 10000, status |-> "pagado",
     links |-> <<[id |-> <<1, 0>>, value |-> 10000, linkUrl |-> "pix", isPaid |-> TRUE]>>,
     extractedData |-> <<>>, executionTotals |-> <<>>, isExecutionRegistered |-> FALSE]

InitExec ==
    /\ alloc = IdleAlloc
    /\ generatedLinks = <<>>
    /\ purchaseOrderCode = NoOrder
    /\ error = Null
    /\ isLoading = FALSE
    /\ rawInputValue = EmptyInput
    /\ rawMaxPixValue = InitialMaxPix
    /\ configError = Null
    /\ genTimer = <<>>
    /\ nextPo = 1
    /\ orders = <<>>
    /\ viewState = [view |-> "dashboard", orderId |-> NoOrder]
    /\ putTimer = <<>>
    /\ putReqs = {}
    /\ putFails = 0
    /\ postCalls = EmptyBag
    /\ delCalls = {}
    /\ db = {StoredOrder}
    /\ language = "es"
    /\ epoch = 0
    /\ staleTimers = {}
    /\ getCalls = SetToBag({[phase |-> "req"]})
    /\ files = <<>>
    /\ procLoading = FALSE
    /\ procError = Null
    /\ manualEntryData = initialManualEntryState
    /\ batches = {}
    /\ InitPure

NextExec ==
    \/ ServerGetOrders
    \/ FetchResponse
    \/ \E view \in {"dashboard", "generator"} : TabClick(view)
    \/ \E orderId \in 1..MaxOrders : OpenProcessing(orderId)
    \/ HandleBackToList
    \/ \E type \in FileTypes : HandleFileChange(type)
    \/ \E indexToRemove \in 1..MaxFiles : HandleRemoveFile(indexToRemove)
    \/ HandleProcessFiles
    \/ BatchNextFile
    \/ \E extracted \in ExtractReplies : ExtractResponse(TRUE, extracted)
    \/ ExtractResponse(FALSE, <<>>)
    \/ BatchComplete
    \/ HandleRegister
    \/ \E indexToRemove \in 1..MaxRecords : HandleDeleteExtractedItem(indexToRemove)
    \/ \E indexToUpdate \in 1..MaxRecords, value \in TypedTexts :
           HandleExtractedItemChange(indexToUpdate, "total", value)
    \/ \E value \in TypedTexts : HandleManualEntryChange("total", value)
    \/ HandleAddManualRecord

SpecExec == InitExec /\ [][NextExec]_vars

\* ---------------------------------------------------------------- SpecLang
\* The same start; records are entered by hand, the execution is registered,
\* the language is changed and the debounced PUTs reach the store.
NextLang ==
    \/ ServerGetOrders
    \/ FetchResponse
    \/ \E lang \in Languages : HandleLanguageChange(lang)
    \/ \E view \in {"dashboard", "generator"} : TabClick(view)
    \/ \E orderId \in 1..MaxOrders : OpenProcessing(orderId)
    \/ HandleRegister
    \/ \E value \in LocaleTexts : HandleManualEntryChange("total", value)
    \/ HandleAddManualRecord
    \/ PutTimerFire
    \/ StaleTimerFire
    \/ ServerPutOrder

SpecLang == InitExec /\ [][NextLang]_vars

\* ------------------------------------------------------------- SpecRefetch
\* An order with its one item unpaid is in the store.  The item is marked
\* paid in the detail view, the order is opened for processing, and a change
\* of language fetches the orders again while the debounced PUT is pending
\* (the steps are those that fit into the debounce delay: no timer fires).
UnpaidOrder ==
    [id |-> 1, totalAmount |-> 10000, status |-> "pendiente",
     links |-> <<[id |-> <<1, 0>>, value |-> 10000, linkUrl |-> "pix", isPaid |-> FALSE]>>,
     extractedData |-> <<>>, executionTotals |-> <<>>, isExecutionRegistered |-> FALSE]

InitRefetch ==
    /\ alloc = IdleAlloc
    /\ generatedLinks = <<>>
    /\ purchaseOrderCode = NoOrder
    /\ error = Null
    /\ isLoading = FALSE
    /\ rawInputValue = EmptyInput
    /\ rawMaxPixValue = InitialMaxPix
    /\ configError = Null
    /\ genTimer = <<>>
    /\ nextPo = 1
    /\ orders = <<>>
    /\ viewState = [view |-> "dashboard", orderId |-> NoOrder]
    /\ putTimer = <<>>
    /\ putReqs = {}
    /\ putFails = 0
    /\ postCalls = EmptyBag
    /\ delCalls = {}
    /\ db = {UnpaidOrder}
    /\ language = "es"
    /\ epoch = 0
    /\ staleTimers = {}
    /\ getCalls = SetToBag({[phase |-> "req"]})
    /\ files = <<>>
    /\ procLoading = FALSE
    /\ procError = Null
    /\ manualEntryData = initialManualEntryState
    /\ batches = {}
    /\ InitPure

NextRefetch ==
    \/ ServerGetOrders
    \/ FetchResponse
    \/ \E lang \in Languages : HandleLanguageChange(lang)
    \/ \E view \in {"dashboard", "generator"} : TabClick(view)
    \/ \E orderId \in 1..MaxOrders : OpenDetail(orderId)
    \/ \E id \in (1..MaxOrders) \X {0} : HandlePaidChange(id)
    \/ HandleBackToList
    \/ \E orderId \in 1..MaxOrders : OpenProcessing(orderId)
    \/ HandleRegister
    \/ \E value \in LocaleTexts : HandleManualEntryChange("total", value)
    \/ HandleAddManualRecord

SpecRefetch == InitRefetch /\ [][NextRefetch]_vars

\* ----------------------------------------------------------- SpecTwoOrders
\* Two orders of one unpaid item each are in the store; their items are
\* marked paid or unpaid in the detail view and the debounced PUTs are sent.
SecondUnpaidOrder ==
    [id |-> 2, totalAmount |-> 20000, status |-> "pendiente",
     links |-> <<[id |-> <<2, 0>>, value |-> 20000, linkUrl |-> "pix", isPaid |-> FALSE]>>,
     extractedData |-> <<>>, executionTotals |-> <<>>, isExecutionRegistered |-> FALSE]

InitTwoOrders ==
    /\ alloc = IdleAlloc
    /\ generatedLinks = <<>>
    /\ purchaseOrderCode = NoOrder
    /\ error = Null
    /\ isLoading = FALSE
    /\ rawInputValue = EmptyInput
    /\ rawMaxPixValue = InitialMaxPix
    /\ configError = Null
    /\ genTimer = <<>>
    /\ nextPo = 2
    /\ orders = <<>>
    /\ viewState = [view |-> "dashboard", orderId |-> NoOrder]
    /\ putTimer = <<>>
    /\ putReqs = {}
    /\ putFails = 0
    /\ postCalls = EmptyBag
    /\ delCalls = {}
    /\ db = {UnpaidOrder, SecondUnpaidOrder}
    /\ language = "es"
    /\ epoch = 0
    /\ staleTimers = {}
    /\ getCalls = SetToBag({[phase |-> "req"]})
    /\ files = <<>>
    /\ procLoading = FALSE
    /\ procError = Null
    /\ manualEntryData = initialManualEntryState
    /\ batches = {}
    /\ InitPure

NextTwoOrders ==
    \/ ServerGetOrders
    \/ FetchResponse
    \/ \E view \in {"dashboard", "generator"} : TabClick(view)
    \/ \E orderId \in {UnpaidOrder.id, SecondUnpaidOrder.id} : OpenDetail(orderId)
    \/ HandleBackToList
    \/ \E id \in {UnpaidOrder.links[1].id, SecondUnpaidOrder.links[1].id} : HandlePaidChange(id)
    \/ PutTimerFire
    \/ ServerPutOrder

SpecTwoOrders == InitTwoOrders /\ [][NextTwoOrders]_vars

\* ------------------------------------------------- allocation properties
AllocDone == alloc.pc = "done"

\* C1: the values of one generated batch are pairwise distinct.
C1_BatchValuesDistinct ==
    AllocDone => ~HasDuplicates(ItemValues(generatedLinks))

\* C2: the base split sums to the requested total, and every correction
\* pass and the shuffle keep that sum, so the installed values sum to total.
C2_SumEqualsTotal ==
    /\ alloc.pc \in {"loop", "install"} => Sum(alloc.values) = alloc.valorDeEntrada
    /\ AllocDone => Sum(ItemValues(generatedLinks)) = alloc.valorDeEntrada

\* a finished batch of several values that the correction loop has changed
C2_Witness ==
    /\ AllocDone
    /\ alloc.attempts > 0
    /\ Len(generatedLinks) > 2
    /\ ~HasDuplicates(ItemValues(generatedLinks))

\* C3: when the correction loop stops at its pass bound with duplicates
\* left, the generation fails explicitly and no items are installed.
C3_UnresolvableIsReported ==
    (AllocDone /\ alloc.attempts = MaxAttempts /\ HasDuplicates(alloc.values))
        => (error # Null /\ generatedLinks = <<>>)

\* C4: every generated value is at most the per-part maximum.
C4_ValuesAtMostMax ==
    AllocDone => \A i \in DOMAIN generatedLinks : generatedLinks[i].value <= alloc.maxPix

RetainedOrders == {orders[i] : i \in DOMAIN orders} \cup db
OrdersInTransit ==
    {putTimer[i] : i \in DOMAIN putTimer} \cup putReqs \cup {call.order : call \in BagToSet(postCalls)}

EveryItemPaid(order) == \A i \in DOMAIN order.links : order.links[i].isPaid

\* C6: an order whose split items are all paid has status 'pagado', whatever
\* sequence of paid toggles, link edits, item deletions and saves led to it.
C6_AllPaidImpliesPaid ==
    \A order \in RetainedOrders : EveryItemPaid(order) => order.status = "pagado"

\* C7: an order with status 'pagado' has every split item paid, on the
\* client, in the store and in every request that carries the order.
C7_PaidImpliesAllPaid ==
    \A order \in RetainedOrders \cup OrdersInTransit :
        order.status = "pagado" => EveryItemPaid(order)

\* ------------------------------------------------- execution properties
\* C8: once an order's isExecutionRegistered is true, its extractedData never
\* changes, on the client or in the store, whatever step comes next: manual
\* add, record edit, record delete, or the completion of a file batch that
\* was started before the registration.
C8_RegisteredRecordsFrozen ==
    [][/\ \A i \in DOMAIN orders, j \in DOMAIN orders' :
            (orders[i].isExecutionRegistered /\ orders'[j].id = orders[i].id)
                => orders'[j].extractedData = orders[i].extractedData
       /\ \A row \in db, next \in db' :
            (row.isExecutionRegistered /\ next.id = row.id)
                => next.extractedData = row.extractedData]_vars

\* C9: executionTotals is assigned at most once: once an order is registered,
\* no later step changes its executionTotals or resets isExecutionRegistered,
\* on the client or in the store.
C9_TotalsAssignedOnce ==
    [][/\ \A i \in DOMAIN orders, j \in DOMAIN orders' :
            (orders[i].isExecutionRegistered /\ orders'[j].id = orders[i].id)
                => /\ orders'[j].isExecutionRegistered
                   /\ orders'[j].executionTotals = orders[i].executionTotals
       /\ \A row \in db, next \in db' :
            (row.isExecutionRegistered /\ next.id = row.id)
                => /\ next.isExecutionRegistered
                   /\ next.executionTotals = row.executionTotals]_vars

\* C10: no retained order, on the client or in the store, has an empty
\* links list; deleting the last item deletes the order instead.
C10_NoEmptyOrder ==
    \A order \in RetainedOrders \cup OrdersInTransit : Len(order.links) > 0

\* the last item of an order was deleted and the store has dropped the order
C10_Witness ==
    \E call \in delCalls : call.phase = "ok" /\ call.orderId \notin DbIds

\* ------------------------------------------------ parseCurrencyValue claims
HasSlash(str) == IndexOf(str, "/") > 0

\* C11: for a text '<number>/<rest>' the returned amount is that of the part
\* before the first '/', and the returned currency is still the code that
\* ends the text; "500,00/1000,00 BRL" read as Portuguese gives 500.00 BRL.
C11_SlashKeepsCurrency ==
    (parseCall.pc = "done" /\ HasSlash(parseCall.valueStr))
        => /\ parseCall.result.amount
                = ParseCurrencyValue(BeforeSlash(parseCall.valueStr), parseCall.language).amount
           /\ parseCall.result.currency = MatchNumberCurrency(Trim(parseCall.valueStr)).currency
           /\ <<parseCall.valueStr, parseCall.language>> = SlashExample
                => parseCall.result = [amount |-> 500 * 100000, currency |-> BRL]

\* the number part of a text: what precedes the first '/', less the code
NumberPartOf(str) == Trim(MatchNumberCurrency(Trim(BeforeSlash(str))).numberPart)

\* a number text read by the rule of one language alone: 'en' drops every ','
\* and keeps '.', 'es' and 'pt' drop every '.' and read ',' as the point
ReadByLocale(numberPart, lang) ==
    LET standard == IF lang = "en" THEN RemoveAll(numberPart, ",")
                    ELSE ReplaceFirst(RemoveAll(numberPart, "."), ",", ".")
        amount == ParseFloat(standard)
    IN  IF amount = <<>> THEN 0 ELSE amount[1]

EuropeanText == <<"1", ".", "2", "3", "4", ",", "5", "6", " ", "B", "R", "L">>
EnglishText == <<"1", ",", "2", "3", "4", ".", "5", "6", " ", "U", "S", "D", "T">>
USDT == <<"U", "S", "D", "T">>

\* C12: the separators come from the language argument only: every finished
\* call returns the amount its number part has under the rule of its language;
\* "1.234,56 BRL" as 'es' and "1,234.56 USDT" as 'en' are 1234.56, and the
\* same texts under the other language are 1.23456, not 1234.56.
C12_SeparatorsFromLocale ==
    parseCall.pc = "done"
        => /\ parseCall.result.amount
                = ReadByLocale(NumberPartOf(parseCall.valueStr), parseCall.language)
           /\ (parseCall.valueStr = EuropeanText /\ parseCall.language = "es")
                => parseCall.result = [amount |-> 123456000, currency |-> BRL]
           /\ (parseCall.valueStr = EnglishText /\ parseCall.language = "en")
                => parseCall.result = [amount |-> 123456000, currency |-> USDT]
           /\ (parseCall.valueStr = EuropeanText /\ parseCall.language = "en")
                => parseCall.result = [amount |-> 123456, currency |-> BRL]
           /\ (parseCall.valueStr = EnglishText /\ parseCall.language \in {"es", "pt"})
                => parseCall.result = [amount |-> 123456, currency |-> USDT]

\* "1.234,56 BRL" has been parsed as English and came out as 1.23456
C12_Witness ==
    /\ parseCall.pc = "done"
    /\ parseCall.valueStr = EuropeanText
    /\ parseCall.language = "en"
    /\ parseCall.result.amount = 123456

\* the number part is missing, or parseFloat makes nothing of it
NumericPortionUnusable(str, lang) ==
    \/ str = <<>>
    \/ NumberPartOf(str) = <<>>
    \/ LET numberPart == NumberPartOf(str)
       IN  ParseFloat(ReplaceFirst(RemoveAll(numberPart, ThousandsSeparator(lang, numberPart)),
                                   DecimalSeparator(lang, numberPart), ".")) = <<>>

\* C13: whenever the numeric portion of the text is absent or malformed the
\* call returns exactly amount 0 with no currency, also when the text ends
\* with an uppercase code.
C13_UnusableNumberIsNoValue ==
    (parseCall.pc = "done" /\ NumericPortionUnusable(parseCall.valueStr, parseCall.language))
        => parseCall.result = NoValue

\* ---------------------------------------------------------- totals claims
ZeroedTotals ==
    [totalQuantity |-> 0, averagePrice |-> [num |-> 0, den |-> 1],
     totalFees |-> <<>>, totalCost |-> <<>>]

\* C14: the totals of an empty record list are the zeroed totals value
\* (quantity 0, average price 0, two empty maps), not null.
C14_EmptyListGivesZeroedTotals ==
    (totalsCall.pc = "done" /\ totalsCall.extractedData = <<>>)
        => totalsCall.result = <<ZeroedTotals>>

\* the buckets of one field written out: one entry per code that occurs, the
\* sum of the amounts parsed with that code
BucketsOf(data, field, lang) ==
    [code \in CurrencyCodes(data, field, lang) |-> SumAmounts(data, field, code, lang)]

\* C15: for every (non-empty) record list, totalCost[c] is the sum of the
\* parsed amounts of the 'total' fields whose parsed currency is c and
\* totalFees[c] the same over the 'fee' fields; totals "100,00 BRL" and
\* "50,00 BRL" give totalCost = {BRL: 150.00}.
C15_BucketsAreSums ==
    (totalsCall.pc = "done" /\ totalsCall.extractedData # <<>>)
        => /\ totalsCall.result # <<>>
           /\ totalsCall.result[1].totalCost
                = BucketsOf(totalsCall.extractedData, "total", totalsCall.language)
           /\ totalsCall.result[1].totalFees
                = BucketsOf(totalsCall.extractedData, "fee", totalsCall.language)
           /\ <<totalsCall.extractedData, totalsCall.language>> = TotalsExample
                => totalsCall.result[1].totalCost = [code \in {BRL} |-> 150 * 100000]

\* the two records "100,00 BRL" and "50,00 BRL" have been totalled to 150.00
C15_Witness ==
    /\ totalsCall.pc = "done"
    /\ <<totalsCall.extractedData, totalsCall.language>> = TotalsExample
    /\ totalsCall.result # <<>>
    /\ BRL \in DOMAIN totalsCall.result[1].totalCost
    /\ totalsCall.result[1].totalCost[BRL] = 150 * 100000

\* the list with every fee and total that parses without a currency blanked
WithoutCurrencyless(data, lang) ==
    [i \in DOMAIN data |->
        [data[i] EXCEPT
            !.fee = IF ParseCurrencyValue(data[i].fee, lang).currency = <<>> THEN <<>> ELSE @,
            !.total = IF ParseCurrencyValue(data[i].total, lang).currency = <<>> THEN <<>> ELSE @]]

\* C16: malformed records do not fail the totals: a fee or total parsed
\* without a currency is in no bucket (no bucket has the null key), and the
\* buckets are those of the same list with such fields absent.
C16_CurrencylessInNoBucket ==
    (totalsCall.pc = "done" /\ totalsCall.extractedData # <<>>)
        => /\ totalsCall.result # <<>>
           /\ <<>> \notin DOMAIN totalsCall.result[1].totalCost
           /\ <<>> \notin DOMAIN totalsCall.result[1].totalFees
           /\ LET rest == Totals(WithoutCurrencyless(totalsCall.extractedData, totalsCall.language),
                                 totalsCall.language)
              IN  /\ totalsCall.result[1].totalCost = rest[1].totalCost
                  /\ totalsCall.result[1].totalFees = rest[1].totalFees

\* a list with a currency-less total of non-zero amount next to a BRL total
\* has been totalled, and the BRL bucket holds the BRL amount alone
C16_Witness ==
    /\ totalsCall.pc = "done"
    /\ totalsCall.result # <<>>
    /\ \E i, j \in DOMAIN totalsCall.extractedData :
         LET lost == ParseCurrencyValue(totalsCall.extractedData[i].total, totalsCall.language)
             kept == ParseCurrencyValue(totalsCall.extractedData[j].total, totalsCall.language)
         IN  /\ lost.currency = <<>>
             /\ lost.amount # 0
             /\ kept.currency = BRL
             /\ BRL \in DOMAIN totalsCall.result[1].totalCost
             /\ totalsCall.result[1].totalCost[BRL] = kept.amount

\* C17: the average price is the BRL bucket of totalCost (0 when there is
\* none) over the total quantity when that quantity is > 0, and 0 otherwise;
\* costs in other currencies have no part in it.
C17_AveragePriceFromBRL ==
    (totalsCall.pc = "done" /\ totalsCall.extractedData # <<>>)
        => LET data == totalsCall.extractedData
               lang == totalsCall.language
               totals == totalsCall.result[1]
               brl == IF BRL \in DOMAIN totals.totalCost THEN totals.totalCost[BRL] ELSE 0
           IN  /\ totals.totalQuantity = SumQuantity(data, lang)
               /\ totals.totalQuantity > 0
                    => totals.averagePrice = [num |-> brl, den |-> totals.totalQuantity]
               /\ ~(totals.totalQuantity > 0)
                    => totals.averagePrice = [num |-> 0, den |-> 1]
               /\ brl = SumAmounts(data, "total", BRL, lang)

\* a list with a BRL cost, a cost in another currency and a positive
\* quantity has been totalled: the average price has the BRL cost alone
C17_Witness ==
    /\ totalsCall.pc = "done"
    /\ totalsCall.result # <<>>
    /\ totalsCall.result[1].totalQuantity > 0
    /\ BRL \in DOMAIN totalsCall.result[1].totalCost
    /\ USDT \in DOMAIN totalsCall.result[1].totalCost
    /\ totalsCall.result[1].totalCost[USDT] > 0
    /\ totalsCall.result[1].averagePrice.num = totalsCall.result[1].totalCost[BRL]
    /\ totalsCall.result[1].averagePrice.num > 0

\* ------------------------------------------------- debounced write claims
\* the armed debounce timers whose argument is the order of one id: the one
\* of the current instance and those of earlier instances
ArmedTimersFor(id) ==
    Cardinality({i \in DOMAIN putTimer : putTimer[i].id = id})
        + Cardinality({tm \in staleTimers : tm.order.id = id})

\* C18: edits to one order that follow each other within the debounce delay
\* end in one PUT with the last state: at no time are two timers armed for
\* the same order (each armed timer sends its own PUT when it fires).
C18_OneArmedTimerPerOrder ==
    \A id \in 1..MaxOrders : ArmedTimersFor(id) <= 1

\* -------------------------------------------------------- generator claims
\* C19: a generation requested with a total that is not positive, or with a
\* bound that is not positive, reports an error and is aborted: the draft
\* list is empty afterwards and no allocation timer is started; and whatever
\* step starts the allocation timer does so with a positive total and bound.
C19_InvalidInputAborts ==
    [][/\ (HandleGenerate /\ (rawInputValue \div 100 <= 0 \/ rawMaxPixValue <= 0))
            => /\ error' # Null
               /\ generatedLinks' = <<>>
               /\ genTimer' = <<>>
               /\ ~isLoading'
       /\ (genTimer' # genTimer /\ genTimer' # <<>>)
            => /\ genTimer'[1].valorDeEntrada > 0
               /\ rawMaxPixValue > 0
               /\ configError = Null]_vars

\* a request with a total below one unit has been rejected and the draft of
\* the earlier generation (whose code is still shown) has been discarded
C19_Witness ==
    /\ error = "errorInputPositive"
    /\ rawInputValue = 50
    /\ generatedLinks = <<>>
    /\ genTimer = <<>>
    /\ purchaseOrderCode # NoOrder

\* C20: for every total > 0 and bound > 0 the allocation ends: the
\* uniqueness loop never makes more than MaxAttempts passes, and every run
\* reaches its end, with the values installed.
C20_AllocationTerminates ==
    /\ [](alloc.attempts <= MaxAttempts)
    /\ <>AllocDone

\* as many values as units (all equal to 1, so never distinct): the loop ran
\* out of its passes and the allocation still ended
C20_Witness ==
    /\ AllocDone
    /\ alloc.attempts = MaxAttempts
    /\ alloc.numeroDeValores = alloc.valorDeEntrada
    /\ alloc.numeroDeValores > 1

\* ------------------------------------------------ extracted record claims
IsPrefix(s, t) == Len(s) <= Len(t) /\ SubSeq(t, 1, Len(s)) = s

\* C21: until an order is registered its extracted list is append-only:
\* every step leaves the records it had in place and unchanged, and can only
\* add records at the end.
C21_AppendOnlyUntilRegistered ==
    [][\A i \in DOMAIN orders, j \in DOMAIN orders' :
          (~orders[i].isExecutionRegistered /\ orders'[j].id = orders[i].id)
              => IsPrefix(orders[i].extractedData, orders'[j].extractedData)]_vars

Quiet ==
    /\ putTimer = <<>>
    /\ staleTimers = {}
    /\ putReqs = {}
    /\ putFails = 0
    /\ getCalls = EmptyBag

\* C23: once the edits are followed by a quiet period, the store has
\* received the latest client state of every order: each order the client
\* holds equals its row in the store, also when two orders were edited
\* within one debounce window.
C23_QuietStoreHasLatest ==
    Quiet => \A i \in DOMAIN orders :
                 orders[i].id \in DbIds => DbRow(orders[i].id) = orders[i]

\* the batch has gone through all its files and ends in this step
BatchCompletes(b) ==
    /\ ~b.awaiting
    /\ b.next > Len(b.files)
    /\ b \notin batches'
    /\ [b EXCEPT !.mounted = FALSE] \notin batches'

\* C24: changes made to an order's list while a batch for it is in flight
\* are kept: the list saved when the batch completes is the list the client
\* holds at that moment followed by the newly extracted records.
C24_CompletionKeepsConcurrentChanges ==
    [][\A b \in batches :
          (BatchCompletes(b) /\ HasOrder(orders, b.orderId))
              => /\ HasOrder(orders', b.orderId)
                 /\ FindOrder(orders', b.orderId).extractedData
                      = FindOrder(orders, b.orderId).extractedData \o b.newExtractedData]_vars

\* C25: the files of a batch are processed one after another in list order
\* and a failing file aborts the batch: a request is issued only for the
\* file the loop stands at, the loop advances by one file and only on an
\* answer, and when the batch ends on a failing file it is gone (no request
\* for a later file) and the orders keep the records they had.
C25_SequentialFailFast ==
    [][\A b \in batches \ batches' :
          /\ \A b2 \in batches' \ batches :
                /\ b2.files = b.files
                /\ b2.orderId = b.orderId
                /\ b2.next \in {b.next, b.next + 1}
                /\ (b2.awaiting /\ ~b.awaiting)
                      => /\ b2.next = b.next
                         /\ b.next <= Len(b.files)
                         /\ b.files[b.next] = "image/png"
                /\ (b2.next = b.next + 1) => (b.awaiting /\ ~b2.awaiting)
          /\ (batches' \ batches = {} /\ (b.awaiting \/ b.next <= Len(b.files)))
                => orders' = orders]_vars

\* a batch of a text file followed by an image has ended on the text file:
\* no batch is left to request the image, the selection is retained and the
\* order still has the records of an earlier batch
C25_Witness ==
    /\ ProcessorShown
    /\ procError = "errorFileNotImage"
    /\ batches = {}
    /\ files = <<"text/plain", "image/png">>
    /\ CurrentOrder.extractedData = <<ExtractedRecord>>

\* the batch ends in this step on a file that failed (a step in which the
\* processor leaves the screen ends no batch)
BatchFails(b) ==
    /\ ~ProcessorUnmounts(orders', viewState')
    /\ b \in batches \ batches'
    /\ batches' \ batches = {}
    /\ b.awaiting \/ b.next <= Len(b.files)

WithValue(links, id, value) ==
    [i \in DOMAIN links |-> IF links[i].id = id THEN [links[i] EXCEPT !.value = value] ELSE links[i]]

\* handleValueChange, the onValueChange callback handed to every LinkItem
HandleValueChange(id, value) ==
    /\ UNCHANGED pureVars
    /\ UNCHANGED execVars
    /\ id \in ItemIds(LinkItemsShown)
    /\ \E i \in DOMAIN generatedLinks : generatedLinks[i].id = id /\ generatedLinks[i].value # value
    /\ IF viewState.orderId = NoOrder
       THEN LET newLinks == WithValue(generatedLinks, id, value)
                newTotal == Sum(ItemValues(newLinks))
            IN  /\ generatedLinks' = newLinks
                /\ rawInputValue' = newTotal * 100
                /\ UNCHANGED <<purchaseOrderCode, orders, viewState, putTimer>>
       ELSE LET orderToUpdate == FindOrder(orders, viewState.orderId)
                newLinks == WithValue(orderToUpdate.links, id, value)
                newTotal == Sum(ItemValues(newLinks))
            IN  UpdateOrder(viewState.orderId, [links |-> newLinks, totalAmount |-> newTotal])
    /\ UNCHANGED <<alloc, error, isLoading, rawMaxPixValue, configError, genTimer, nextPo,
                   putReqs, putFails, postCalls, delCalls, db>>

\* the values an item is changed to
ItemValueInputs == {MIN_RANGE}

\* The draft is generated and saved, and the items of the draft and of the
\* saved order are changed in value and deleted while the PUTs travel.
NextValue ==
    \/ \E view \in {"dashboard", "generator"} : TabClick(view)
    \/ \E numericString \in RawInputs : HandleInputChange(numericString)
    \/ HandleGenerate
    \/ GenTimerFire
    \/ \E orderId \in 1..MaxOrders : OpenDetail(orderId)
    \/ HandleBackToList
    \/ HandleSaveOperation(MaxInFlight)
    \/ ServerPostOrder
    \/ SaveResponse
    \/ \E id \in (1..MaxOrders) \X (0..2), value \in ItemValueInputs : HandleValueChange(id, value)
    \/ \E id \in (1..MaxOrders) \X (0..2) : HandleDeleteItem(id)
    \/ ServerDeleteOrder
    \/ DeleteResponse
    \/ PutTimerFire
    \/ ServerPutOrder
    \/ PutFailResponse

SpecValue == Init /\ [][NextValue]_vars

C28_LatePutDoesNotRecreate ==
    [][\A body \in putReqs :
          (body \notin putReqs' /\ body.id \notin DbIds)
              => (db' = db /\ putFails' = putFails + 1)]_vars

\* the store has dropped the order (the client has not yet seen the answer of
\* the DELETE) and a PUT for it was answered with 404
C28_Witness ==
    /\ putFails > 0
    /\ \E call \in delCalls : call.phase = "ok" /\ call.orderId \notin DbIds

\* C29: whenever the draft list of generated items is non-empty outside the
\* detail view, purchaseOrderCode is non-null and is the prefix of every
\* draft item id; a generation timer that is pending when the draft is
\* cleared does not install its items.
C29_DraftItemsCarryOrderCode ==
    (generatedLinks # <<>> /\ viewState.view # "detail")
        => /\ purchaseOrderCode # NoOrder
           /\ \A i \in DOMAIN generatedLinks : generatedLinks[i].id[1] = purchaseOrderCode

\* ---------------------------------------------------------- SpecEmptyReply
\* The extraction service may answer an image with an array of no records:
\* the response schema is an array with no minimum length and the server
\* relays the parsed array as it is.
EmptyReply == <<>>

NextEmptyReply ==
    \/ NextExec
    \/ ExtractResponse(TRUE, EmptyReply)

SpecEmptyReply == InitExec /\ [][NextEmptyReply]_vars

\* C30: in every reachable state an order with isExecutionRegistered = true
\* has a defined executionTotals and a non-empty list of extracted records.
C30_RegisteredHasTotalsAndRecords ==
    \A i \in DOMAIN orders :
        orders[i].isExecutionRegistered
            => (orders[i].executionTotals # <<>> /\ orders[i].extractedData # <<>>)

====
